---- MODULE Spec2Model ----
(***************************************************************************)
(* A model of parasync (src/src/parasync/main.py): the capacity-weighted   *)
(* partitioner, RsyncTask.run's progress parsing, the threaded             *)
(* RsyncParallelExecutor, the lock-protected progress table with its       *)
(* monitor thread, and the driver main().                                  *)
(***************************************************************************)
EXTENDS Integers, Sequences, FiniteSets, TLC

\* ------------------------------------------------------------------ bounds
MaxFiles == 3      \* entries handed to split_files_by_capacity (SpecSplit)
MaxGroups == 3     \* groups_count handed to split_files_by_capacity (SpecSplit)
MaxSize == 2       \* largest file size
MaxWalk == 2       \* files found by os.walk in the driver
MaxWalkSize == 1  \* largest size of a file found by os.walk
MaxProcs == 2      \* largest --max-procs value
MaxCpu == 3        \* largest os.cpu_count()
MaxLines == 2      \* lines a process emits in the driver
MaxRunLines == 2   \* lines the process emits in SpecRun
MaxLineLen == 2    \* characters of a line in SpecRun
MaxCycles == 2     \* reporting cycles of progress_monitor
PipeCapacity == 2  \* chunks a pipe holds before a write to it blocks
MaxTotal == 4      \* largest total_bytes handed to progress_monitor (SpecMonitor)
MaxEntry == 2      \* largest value of a progress_data entry (SpecMonitor)
MaxLptFiles == 5   \* entries handed to split_files_by_capacity (SpecLpt)
MaxLptSize == 3    \* largest file size (SpecLpt)
MaxLptGroups == 3  \* largest groups_count (SpecLpt)

None == "None"
ValueError == "ValueError"

\* ----------------------------------------------------------- the Helper
Paths == {"a", "b", "c"}
Sizes == 0..MaxSize
FileEntry == Paths \X Sizes

\* all sequences over S of length at most n
SeqUpTo(S, n) == UNION {[1..k -> S] : k \in 0..n}

\* sorted_desc but for the sort: the entries stay in their input order
\* (faulty variant)
sorted_not(s) == s

\* sorted(file_info_list, key=lambda x: x[1], reverse=True): stable, so
\* entries of equal size keep their input order
RECURSIVE insert_desc(_, _)
insert_desc(x, s) ==
    IF s = <<>> THEN <<x>>
    ELSE IF Head(s)[2] >= x[2] THEN <<Head(s)>> \o insert_desc(x, Tail(s))
         ELSE <<x>> \o s

RECURSIVE sorted_desc(_)
sorted_desc(s) ==
    IF s = <<>> THEN <<>>
    ELSE insert_desc(s[Len(s)], sorted_desc(SubSeq(s, 1, Len(s) - 1)))

\* min_of but for the largest value (faulty variant)
max_not_min(sizes) == CHOOSE m \in {sizes[k] : k \in DOMAIN sizes} :
                          \A k \in DOMAIN sizes : m >= sizes[k]

\* min(group_sizes)
min_of(sizes) == CHOOSE m \in {sizes[k] : k \in DOMAIN sizes} :
                     \A k \in DOMAIN sizes : m <= sizes[k]

\* index_of but for the highest index holding v (faulty variant)
index_of_last(sizes, v) == CHOOSE k \in DOMAIN sizes :
                               sizes[k] = v /\ \A j \in DOMAIN sizes : sizes[j] = v => k >= j

\* group_sizes.index(v): the lowest index holding v
index_of(sizes, v) == CHOOSE k \in DOMAIN sizes :
                          sizes[k] = v /\ \A j \in DOMAIN sizes : sizes[j] = v => k <= j

\* split_loop but for a test "if size:" around the placement (faulty variant)
RECURSIVE split_loop_skip_empty(_, _)
split_loop_skip_empty(todo, st) ==
    IF todo = <<>> THEN st
    ELSE IF st.group_sizes = <<>> THEN [st EXCEPT !.raised = "ValueError"]
    ELSE IF Head(todo)[2] = 0 THEN split_loop_skip_empty(Tail(todo), st)
    ELSE LET least == CHOOSE m \in {st.group_sizes[k] : k \in DOMAIN st.group_sizes} :
                          \A k \in DOMAIN st.group_sizes : m <= st.group_sizes[k]
             idx == CHOOSE k \in DOMAIN st.group_sizes :
                        /\ st.group_sizes[k] = least
                        /\ \A j \in DOMAIN st.group_sizes :
                               st.group_sizes[j] = least => k <= j
         IN split_loop_skip_empty(Tail(todo),
                [raised |-> "None",
                 groups |-> [st.groups EXCEPT ![idx] = Append(@, Head(todo)[1])],
                 group_sizes |-> [st.group_sizes EXCEPT ![idx] = @ + Head(todo)[2]]])

\* the body of the for loop, over the entries still to place; st holds the
\* locals groups and group_sizes, and raised names the exception that left
\* the loop: min() of an empty list raises ValueError
RECURSIVE split_loop(_, _)
split_loop(todo, st) ==
    IF todo = <<>> THEN st
    ELSE IF st.group_sizes = <<>> THEN [st EXCEPT !.raised = ValueError]
    ELSE LET idx == index_of(st.group_sizes, min_of(st.group_sizes))
             path == Head(todo)[1]
             size == Head(todo)[2]
         IN split_loop(Tail(todo),
                [raised |-> None,
                 groups |-> [st.groups EXCEPT ![idx] = Append(@, path)],
                 group_sizes |-> [st.group_sizes EXCEPT ![idx] = @ + size]])

\* range(groups_count) is empty for groups_count <= 0
range_len(n) == IF n > 0 THEN n ELSE 0

\* the outcome of a call: raised = None and groups the list returned, or
\* raised the exception that ended it
split_files_by_capacity(entries, count) ==
    split_loop(sorted_desc(entries),
               [raised |-> None,
                groups |-> [k \in 1..range_len(count) |-> <<>>],
                group_sizes |-> [k \in 1..range_len(count) |-> 0]])

\* ------------------------------------------------- RsyncTask.run's parsing
Digits == {"0", "1", "2", "3", "4", "5", "6", "7", "8", "9"}
Whitespace == {" ", "\t", "\n", "\r", "\f"}
LineEnd == {"\r", "\n"}

\* int() of one decimal digit
digit_value(c) ==
    CASE c = "0" -> 0 [] c = "1" -> 1 [] c = "2" -> 2 [] c = "3" -> 3
      [] c = "4" -> 4 [] c = "5" -> 5 [] c = "6" -> 6 [] c = "7" -> 7
      [] c = "8" -> 8 [] c = "9" -> 9

\* line.rstrip("\r\n"): drops every trailing carriage return and newline
RECURSIVE rstrip(_)
rstrip(s) ==
    IF s # <<>> /\ s[Len(s)] \in LineEnd
    THEN rstrip(SubSeq(s, 1, Len(s) - 1)) ELSE s

\* the number of leading characters of s that are in set
RECURSIVE span(_, _)
span(s, set) ==
    IF s # <<>> /\ Head(s) \in set THEN 1 + span(Tail(s), set) ELSE 0

\* prog_re.match(line_str) for ^\s*([\d,]+): group 1, or None without a match
prog_re_match(line_str) ==
    LET rest == SubSeq(line_str, span(line_str, Whitespace) + 1, Len(line_str))
        n == span(rest, Digits \cup {","})
    IN IF n = 0 THEN [matched |-> FALSE, group1 |-> <<>>]
       ELSE [matched |-> TRUE, group1 |-> SubSeq(rest, 1, n)]

\* str.replace(",", "")
RECURSIVE replace_commas(_)
replace_commas(s) ==
    IF s = <<>> THEN <<>>
    ELSE IF Head(s) = "," THEN replace_commas(Tail(s))
         ELSE <<Head(s)>> \o replace_commas(Tail(s))

\* int(s) of a string of decimal digits; the empty string raises ValueError
RECURSIVE int_digits(_)
int_digits(s) ==
    IF s = <<>> THEN 0
    ELSE int_digits(SubSeq(s, 1, Len(s) - 1)) * 10 + digit_value(s[Len(s)])

\* parse_line but for the call of replace: int() of a group with a comma
\* raises ValueError, and the line is skipped (faulty variant)
parse_line_keep_commas(line) ==
    LET m == prog_re_match(rstrip(line))
    IN IF m.matched /\ \A k \in DOMAIN m.group1 : m.group1[k] # ","
       THEN [call |-> TRUE, transferred |-> int_digits(m.group1)]
       ELSE [call |-> FALSE, transferred |-> 0]

\* what one pass of the loop body does with a line read: the value handed
\* to the callback, or no call (no match, or ValueError swallowed)
parse_line(line) ==
    LET m == prog_re_match(rstrip(line))
        digits == replace_commas(m.group1)
    IN IF m.matched /\ digits # <<>>
       THEN [call |-> TRUE, transferred |-> int_digits(digits)]
       ELSE [call |-> FALSE, transferred |-> 0]

\* ------------------------------------------------------------------- state
VARIABLES
    \* a call of Helper.split_files_by_capacity (SpecSplit)
    file_info_list, groups_count, split_out,
    \* main(): the command line, the file system and main's locals
    args, isdir, main_pc, file_info, total_bytes, max_procs, num_groups,
    groups, next_idx, exit_status, uncaught,
    \* RsyncParallelExecutor: the callback, results, and per worker thread
    \* its position, the lines its process has emitted, whether the stream is
    \* at its end, the value in flight to the callback, and the local ret
    progress_callback, results, pc, emitted, at_eof, cb_val, ret,
    \* how often each task's run was entered, each slot of results written
    run_count, result_writes,
    \* the test's dummy_progress list (SpecRun); per process the chunks that
    \* sit unread in its stderr pipe, and whether it is blocked writing to it
    run_callback, progress_values, stderr_fill, proc_blocked,
    \* the progress table, its lock, and the values written per key
    progress_data, data_lock, reported,
    \* progress_monitor
    \* with the percentage of the last status line written, in tenths, and
    \* the number of "\n" written
    prog_stop_event, mon_pc, transferred, prev_transferred, cycles,
    shown_pct, newlines

splitVars == <<file_info_list, groups_count, split_out>>
mainVars == <<args, isdir, main_pc, file_info, total_bytes, max_procs,
              num_groups, groups, next_idx, exit_status, uncaught>>
execVars == <<progress_callback, results, pc, emitted, at_eof, cb_val, ret,
              run_count, result_writes>>
runVars == <<run_callback, progress_values, stderr_fill, proc_blocked>>
tableVars == <<progress_data, data_lock, reported>>
monVars == <<prog_stop_event, mon_pc, transferred, prev_transferred, cycles,
            shown_pct, newlines>>
vars == <<splitVars, mainVars, execVars, runVars, tableVars, monVars>>

Pending == "pending"
EmptyFn == <<>>

\* a Python value that may be None: <<>> for None, <<v>> for the value v
NoValue == <<>>
Some(v) == <<v>>

\* the parts of the state a specification does not use
SplitIdle ==
    /\ file_info_list = <<>>
    /\ groups_count = 0
    /\ split_out = [raised |-> Pending, groups |-> <<>>, group_sizes |-> <<>>]

MainIdle ==
    /\ args = [remote_path |-> <<>>, max_procs |-> NoValue, progress |-> FALSE]
    /\ isdir = FALSE
    /\ main_pc = "idle"
    /\ file_info = <<>>
    /\ total_bytes = 0
    /\ max_procs = 0
    /\ num_groups = 0
    /\ groups = <<>>
    /\ next_idx = 0
    /\ exit_status = NoValue
    /\ uncaught = None

ExecIdle ==
    /\ progress_callback = None
    /\ results = EmptyFn
    /\ pc = EmptyFn
    /\ emitted = EmptyFn
    /\ at_eof = EmptyFn
    /\ cb_val = EmptyFn
    /\ ret = EmptyFn
    /\ run_count = EmptyFn
    /\ result_writes = EmptyFn

RunIdle ==
    /\ run_callback = None
    /\ progress_values = <<>>
    /\ stderr_fill = EmptyFn
    /\ proc_blocked = EmptyFn

TableIdle ==
    /\ progress_data = EmptyFn
    /\ data_lock = FALSE
    /\ reported = EmptyFn

MonIdle ==
    /\ prog_stop_event = FALSE
    /\ mon_pc = "unstarted"
    /\ transferred = 0
    /\ prev_transferred = 0
    /\ cycles = 0
    /\ shown_pct = 0
    /\ newlines = 0

\* ---------------------------------------------- SpecSplit: one call of
\* Helper.split_files_by_capacity on any entries and any group count
InitSplit ==
    /\ file_info_list \in SeqUpTo(FileEntry, MaxFiles)
    /\ groups_count \in (-1)..MaxGroups
    /\ split_out = [raised |-> Pending, groups |-> <<>>, group_sizes |-> <<>>]
    /\ MainIdle /\ ExecIdle /\ RunIdle /\ TableIdle /\ MonIdle

SplitCall ==
    /\ split_out.raised = Pending
    /\ split_out' = split_files_by_capacity(file_info_list, groups_count)
    /\ UNCHANGED <<file_info_list, groups_count, mainVars, execVars, runVars,
                   tableVars, monVars>>

NextSplit == SplitCall

SpecSplit == InitSplit /\ [][NextSplit]_vars

\* ------------------------------------------------ SpecLpt: one call of
\* Helper.split_files_by_capacity on entries with paths of their own, as
\* os.walk yields them, and a group count of at least 1
LptPaths == <<"a", "b", "c", "d", "e", "f", "g">>
TestSizes == <<500, 300, 200, 100>>
LptInputs ==
    {[k \in DOMAIN sz |-> <<LptPaths[k], sz[k]>>] :
        sz \in SeqUpTo(0..MaxLptSize, MaxLptFiles) \cup {TestSizes}}

InitLpt ==
    /\ file_info_list \in LptInputs
    /\ groups_count \in 1..MaxLptGroups
    /\ split_out = [raised |-> Pending, groups |-> <<>>, group_sizes |-> <<>>]
    /\ MainIdle /\ ExecIdle /\ RunIdle /\ TableIdle /\ MonIdle

NextLpt == SplitCall

SpecLpt == InitLpt /\ [][NextLpt]_vars

\* ------------------------------------------------------ RsyncTask.run
Tasks == DOMAIN pc

\* the exit codes of the external process
ExitCodes == {0, 1, 23}

\* run is entered and the process is spawned (Popen)
Popen(i) ==
    /\ pc[i] = "start"
    /\ pc' = [pc EXCEPT ![i] = "readline"]
    /\ run_count' = [run_count EXCEPT ![i] = @ + 1]
    /\ UNCHANGED <<progress_callback, results, emitted, at_eof, cb_val, ret,
                   result_writes>>
    /\ UNCHANGED <<splitVars, mainVars, runVars, tableVars, monVars>>

\* what p.stdout.readline() returns for a line of text: universal newlines
\* end it with "\n", except a last line the process left unterminated
raw_line(text, terminated) == IF terminated THEN Append(text, "\n") ELSE text

\* one pass of the while loop on a line the process emits: the line is read,
\* matched and parsed, and a parsed value goes to the callback when one was
\* given. lines is what the process may emit, most the number of its lines.
ReadLine(i, lines, most) ==
    /\ pc[i] = "readline"
    /\ ~at_eof[i]
    /\ ~proc_blocked[i]
    /\ Len(emitted[i]) < most
    /\ \E text \in lines, terminated \in BOOLEAN :
         /\ terminated \/ text # <<>>
         /\ emitted' = [emitted EXCEPT ![i] = Append(@, text)]
         /\ at_eof' = [at_eof EXCEPT ![i] = ~terminated]
         /\ LET p == parse_line(raw_line(text, terminated))
            IN IF p.call /\ run_callback # None
               THEN /\ pc' = [pc EXCEPT ![i] = "callback"]
                    /\ cb_val' = [cb_val EXCEPT ![i] = p.transferred]
               ELSE UNCHANGED <<pc, cb_val>>
    /\ UNCHANGED <<progress_callback, results, ret, run_count, result_writes>>
    /\ UNCHANGED <<splitVars, mainVars, runVars, tableVars, monVars>>

\* readline() returns "" at the end of the stream: not line, break
ReadEof(i) ==
    /\ pc[i] = "readline"
    /\ ~proc_blocked[i]
    /\ pc' = [pc EXCEPT ![i] = "wait"]
    /\ at_eof' = [at_eof EXCEPT ![i] = TRUE]
    /\ UNCHANGED <<progress_callback, results, emitted, cb_val, ret, run_count,
                   result_writes>>
    /\ UNCHANGED <<splitVars, mainVars, runVars, tableVars, monVars>>

\* p.wait(); ret = p.returncode; return ret
Wait(i) ==
    /\ pc[i] = "wait"
    /\ \E code \in ExitCodes : ret' = [ret EXCEPT ![i] = Some(code)]
    /\ pc' = [pc EXCEPT ![i] = "returned"]
    /\ UNCHANGED <<progress_callback, results, emitted, at_eof, cb_val,
                   run_count, result_writes>>
    /\ UNCHANGED <<splitVars, mainVars, runVars, tableVars, monVars>>

\* the process writes a chunk to its stderr, the pipe of stderr=PIPE that
\* run never reads; a write to the full pipe blocks the process, its stdout
\* still open
WriteStderr(i) ==
    /\ pc[i] = "readline"
    /\ ~proc_blocked[i]
    /\ IF stderr_fill[i] < PipeCapacity
       THEN /\ stderr_fill' = [stderr_fill EXCEPT ![i] = @ + 1]
            /\ UNCHANGED proc_blocked
       ELSE /\ proc_blocked' = [proc_blocked EXCEPT ![i] = TRUE]
            /\ UNCHANGED stderr_fill
    /\ UNCHANGED <<run_callback, progress_values>>
    /\ UNCHANGED <<splitVars, mainVars, execVars, tableVars, monVars>>

\* the test's callback: progress_values.append(value)
DummyProgress(i) ==
    /\ pc[i] = "callback"
    /\ run_callback = "dummy_progress"
    /\ progress_values' = Append(progress_values, cb_val[i])
    /\ pc' = [pc EXCEPT ![i] = "readline"]
    /\ UNCHANGED <<run_callback, stderr_fill, proc_blocked>>
    /\ UNCHANGED <<progress_callback, results, emitted, at_eof, cb_val, ret,
                   run_count, result_writes>>
    /\ UNCHANGED <<splitVars, mainVars, tableVars, monVars>>

\* ---------------------------------- SpecRun: one RsyncTask.run, called with
\* the callback dummy_progress or with none, on any output of the process
RunChars == {" ", ",", "1"}

\* the line of test_run_success_with_progress, and lines of other shapes
SampleLines == {
    <<" ", " ", "1", ",", "2", "3", "4", ",", "5", "6", "7", " ", " ", " ",
      "1", "0", "%", " ", " ", " ", "1", ".", "2", "3", "M", "B", "/", "s">>,
    <<"s", "e", "n", "d", "i", "n", "g", " ", "5">>,
    <<"\t", "0", " ", "0", "%">>,
    <<" ", ",", ",", " ", "7">>,
    <<"9", "0", "x">>,
    <<"x">> }

RunLines == SeqUpTo(RunChars, MaxLineLen) \cup SampleLines

InitRun ==
    /\ SplitIdle /\ MainIdle /\ TableIdle /\ MonIdle
    /\ run_callback \in {"dummy_progress", None}
    /\ progress_values = <<>>
    /\ stderr_fill = [i \in {0} |-> 0]
    /\ proc_blocked = [i \in {0} |-> FALSE]
    /\ progress_callback = None
    /\ results = EmptyFn
    /\ pc = [i \in {0} |-> "start"]
    /\ emitted = [i \in {0} |-> <<>>]
    /\ at_eof = [i \in {0} |-> FALSE]
    /\ cb_val = [i \in {0} |-> 0]
    /\ ret = [i \in {0} |-> NoValue]
    /\ run_count = [i \in {0} |-> 0]
    /\ result_writes = EmptyFn

NextRun ==
    \/ \E i \in Tasks : Popen(i)
    \/ \E i \in Tasks : ReadLine(i, RunLines, MaxRunLines)
    \/ \E i \in Tasks : ReadEof(i)
    \/ \E i \in Tasks : DummyProgress(i)
    \/ \E i \in Tasks : Wait(i)

SpecRun == InitRun /\ [][NextRun]_vars

\* ------------------------------ SpecStderr: one RsyncTask.run on a process
\* that also writes to its stderr
NextStderr ==
    \/ \E i \in Tasks : Popen(i)
    \/ \E i \in Tasks : ReadLine(i, RunLines, MaxRunLines)
    \/ \E i \in Tasks : ReadEof(i)
    \/ \E i \in Tasks : DummyProgress(i)
    \/ \E i \in Tasks : Wait(i)
    \/ \E i \in Tasks : WriteStderr(i)

SpecStderr == InitRun /\ [][NextStderr]_vars

\* ------------------------------------------- main.update_progress, the lock
\* lock_acquire but for taking the lock without waiting for it (faulty variant)
lock_acquire_no_wait == data_lock' = TRUE

\* data_lock.acquire(): blocks while the lock is held
lock_acquire == data_lock = FALSE /\ data_lock' = TRUE

lock_release == data_lock' = FALSE

\* max(a, b)
max2(a, b) == IF a >= b THEN a ELSE b

\* progress_data.get(task_index, 0)
dict_get(d, k, default) == IF k \in DOMAIN d THEN d[k] ELSE default

\* d[k] = v
dict_set(d, k, v) == [j \in DOMAIN d \cup {k} |-> IF j = k THEN v ELSE d[j]]

\* stored_value but for the max: the last report is stored (faulty variant)
stored_value_last(old, bytes_value) == bytes_value

\* the value update_progress stores for a report
stored_value(old, bytes_value) == max2(old, bytes_value)

\* worker's lambda with self.progress_callback None: nothing happens
LambdaNone(i) ==
    /\ pc[i] = "callback"
    /\ run_callback = "lambda"
    /\ progress_callback = None
    /\ pc' = [pc EXCEPT ![i] = "readline"]
    /\ UNCHANGED <<progress_callback, results, emitted, at_eof, cb_val, ret,
                   run_count, result_writes>>
    /\ UNCHANGED <<splitVars, mainVars, runVars, tableVars, monVars>>

\* worker's lambda calls update_progress(idx, val): with data_lock
UpdateAcquire(i) ==
    /\ pc[i] = "callback"
    /\ run_callback = "lambda"
    /\ progress_callback = "update_progress"
    /\ lock_acquire
    /\ pc' = [pc EXCEPT ![i] = "locked"]
    /\ UNCHANGED <<progress_callback, results, emitted, at_eof, cb_val, ret,
                   run_count, result_writes>>
    /\ UNCHANGED <<progress_data, reported>>
    /\ UNCHANGED <<splitVars, mainVars, runVars, monVars>>

\* UpdateWrite but for the index: every worker's update goes to key 0, as
\* with one lambda shared by all workers (faulty variant)
UpdateWriteFirstKey(i) ==
    /\ pc[i] = "locked"
    /\ progress_data' = dict_set(progress_data, 0,
                            stored_value(dict_get(progress_data, 0, 0), cb_val[i]))
    /\ reported' = [reported EXCEPT ![0] = @ \cup {cb_val[i]}]
    /\ lock_release
    /\ pc' = [pc EXCEPT ![i] = "readline"]
    /\ UNCHANGED <<progress_callback, results, emitted, at_eof, cb_val, ret,
                   run_count, result_writes>>
    /\ UNCHANGED <<splitVars, mainVars, runVars, monVars>>

\* the body of update_progress, and the end of its with block
UpdateWrite(i) ==
    /\ pc[i] = "locked"
    /\ progress_data' = dict_set(progress_data, i,
                            stored_value(dict_get(progress_data, i, 0), cb_val[i]))
    /\ reported' = [reported EXCEPT ![i] = @ \cup {cb_val[i]}]
    /\ lock_release
    /\ pc' = [pc EXCEPT ![i] = "readline"]
    /\ UNCHANGED <<progress_callback, results, emitted, at_eof, cb_val, ret,
                   run_count, result_writes>>
    /\ UNCHANGED <<splitVars, mainVars, runVars, monVars>>

\* ------------------------------------------------------ progress_monitor
\* sum(progress_data.values())
RECURSIVE dict_sum(_)
dict_sum(d) ==
    IF DOMAIN d = {} THEN 0
    ELSE LET k == CHOOSE j \in DOMAIN d : TRUE
         IN d[k] + dict_sum([j \in DOMAIN d \ {k} |-> d[j]])

\* x / y rounded to the nearest integer, a tie to the even one, as the
\* format ".1f" rounds a value the float holds exactly
round_div(x, y) ==
    LET q == x \div y
        r == x % y
    IN IF 2 * r > y \/ (2 * r = y /\ q % 2 = 1) THEN q + 1 ELSE q

\* percent_tenths but for the rounding: the digits after the first decimal
\* are cut off (faulty variant)
percent_cut(done, total) ==
    IF total > 0 THEN (done * 1000) \div total ELSE 0

\* pct = (transferred / total_bytes * 100) if total_bytes > 0 else 0, as
\* f"{pct:.1f}" writes it: the number of tenths of a percent
percent_tenths(done, total) ==
    IF total > 0 THEN round_div(done * 1000, total) ELSE 0

\* MonCheck but for a loop that also ends by itself after its last cycle
\* (faulty variant)
MonCheckEndsAlone ==
    /\ mon_pc = "check"
    /\ IF prog_stop_event \/ cycles >= MaxCycles
       THEN mon_pc' = "newline"
       ELSE mon_pc' = "acquire"
    /\ UNCHANGED <<prog_stop_event, transferred, prev_transferred, cycles,
                   shown_pct, newlines>>
    /\ UNCHANGED <<splitVars, mainVars, execVars, runVars, tableVars>>

\* while not stop_event.is_set(): the loop goes on or ends
MonCheck ==
    /\ mon_pc = "check"
    /\ IF prog_stop_event
       THEN mon_pc' = "newline"
       ELSE cycles < MaxCycles /\ mon_pc' = "acquire"
    /\ UNCHANGED <<prog_stop_event, transferred, prev_transferred, cycles,
                   shown_pct, newlines>>
    /\ UNCHANGED <<splitVars, mainVars, execVars, runVars, tableVars>>

\* with data_lock
MonAcquire ==
    /\ mon_pc = "acquire"
    /\ lock_acquire
    /\ mon_pc' = "locked"
    /\ UNCHANGED <<prog_stop_event, transferred, prev_transferred, cycles,
                   shown_pct, newlines>>
    /\ UNCHANGED <<progress_data, reported>>
    /\ UNCHANGED <<splitVars, mainVars, execVars, runVars>>

\* transferred = sum(progress_data.values()), and the end of the with block
MonSnapshot ==
    /\ mon_pc = "locked"
    /\ transferred' = dict_sum(progress_data)
    /\ lock_release
    /\ mon_pc' = "render"
    /\ UNCHANGED <<prog_stop_event, prev_transferred, cycles, shown_pct,
                   newlines>>
    /\ UNCHANGED <<progress_data, reported>>
    /\ UNCHANGED <<splitVars, mainVars, execVars, runVars>>

\* the status line is written, prev_transferred = transferred, sleep(1)
MonRender ==
    /\ mon_pc = "render"
    /\ shown_pct' = percent_tenths(transferred, total_bytes)
    /\ prev_transferred' = transferred
    /\ cycles' = cycles + 1
    /\ mon_pc' = "check"
    /\ UNCHANGED <<prog_stop_event, transferred, newlines>>
    /\ UNCHANGED <<splitVars, mainVars, execVars, runVars, tableVars>>

\* sys.stdout.write("\n") and the thread ends
MonNewline ==
    /\ mon_pc = "newline"
    /\ newlines' = newlines + 1
    /\ mon_pc' = "finished"
    /\ UNCHANGED <<prog_stop_event, transferred, prev_transferred, cycles,
                   shown_pct>>
    /\ UNCHANGED <<splitVars, mainVars, execVars, runVars, tableVars>>

\* ----------------------------- SpecMonitor: progress_monitor in a thread of
\* its own on a table that does not change, stopped by the test at any time
TestTable == [i \in {0, 1} |-> 500]
TestTotal == 1000
MonTables ==
    UNION {[0..(n - 1) -> 0..MaxEntry] : n \in 0..2} \cup {TestTable}
MonTotals == 0..MaxTotal \cup {TestTotal}

InitMonitor ==
    /\ SplitIdle /\ ExecIdle /\ RunIdle
    /\ args = [remote_path |-> <<>>, max_procs |-> NoValue, progress |-> TRUE]
    /\ isdir = FALSE
    /\ main_pc = "idle"
    /\ file_info = <<>>
    /\ total_bytes \in MonTotals
    /\ max_procs = 0
    /\ num_groups = 0
    /\ groups = <<>>
    /\ next_idx = 0
    /\ exit_status = NoValue
    /\ uncaught = None
    /\ progress_data \in MonTables
    /\ data_lock = FALSE
    /\ reported = EmptyFn
    /\ prog_stop_event = FALSE
    /\ mon_pc = "check"
    /\ transferred = 0
    /\ prev_transferred = 0
    /\ cycles = 0
    /\ shown_pct = 0
    /\ newlines = 0

\* the test's stop_event.set()
TestStop ==
    /\ ~prog_stop_event
    /\ prog_stop_event' = TRUE
    /\ UNCHANGED <<mon_pc, transferred, prev_transferred, cycles, shown_pct,
                   newlines>>
    /\ UNCHANGED <<splitVars, mainVars, execVars, runVars, tableVars>>

MonitorThread ==
    MonCheck \/ MonAcquire \/ MonSnapshot \/ MonRender \/ MonNewline

NextMonitor ==
    \/ MonCheck
    \/ MonAcquire
    \/ MonSnapshot
    \/ MonRender
    \/ MonNewline
    \/ TestStop

\* the monitor's thread is scheduled, its sleep returns, and the lock that
\* nobody else holds is granted
SpecMonitor == InitMonitor /\ [][NextMonitor]_vars /\ WF_vars(MonitorThread)

\* ------------------------------------------------------------------ main
TypeError == "TypeError"

RsyncScheme == <<"r", "s", "y", "n", "c", ":", "/", "/">>

\* str.startswith(prefix)
startswith(s, prefix) ==
    Len(s) >= Len(prefix) /\ SubSeq(s, 1, Len(prefix)) = prefix

\* the destinations given on the command line
RemotePaths == {
    RsyncScheme \o <<"h", "/", "p">>,
    <<"h", ":", "/", "p">>,
    <<"r", "s", "y", "n", "c", ":", "/", "h">> }

\* what os.walk finds: files with distinct paths and any sizes
PathOf == <<"a", "b", "c", "d">>
WalkResults ==
    {[k \in 1..n |-> <<PathOf[k], sz[k]>>] :
        n \in 0..MaxWalk, sz \in [1..MaxWalk -> 0..MaxWalkSize]}

\* what os.cpu_count() returns: a count, or None when it is undetermined
CpuCounts == {NoValue} \cup {Some(c) : c \in 1..MaxCpu}

RECURSIVE sum_sizes(_)
sum_sizes(entries) ==
    IF entries = <<>> THEN 0 ELSE Head(entries)[2] + sum_sizes(Tail(entries))

\* min(a, b)
min2(a, b) == IF a <= b THEN a ELSE b

\* all_zero but for any() in place of all() (faulty variant)
some_zero(rs) == \E i \in DOMAIN rs : rs[i] = Some(0)

\* all(r == 0 for r in results)
all_zero(rs) == \A i \in DOMAIN rs : rs[i] = Some(0)

\* sys.exit(code), or main returning (code 0)
exit_with(code) ==
    /\ main_pc' = "exited"
    /\ exit_status' = Some(code)

\* an exception nothing catches ends the interpreter with status 1
raise_uncaught(exc) ==
    /\ uncaught' = exc
    /\ exit_with(1)

\* if not os.path.isdir(local_dir): sys.exit(1)
CheckLocalDir ==
    /\ main_pc = "check_dir"
    /\ IF ~isdir THEN exit_with(1)
       ELSE main_pc' = "check_remote" /\ UNCHANGED exit_status
    /\ UNCHANGED <<args, isdir, file_info, total_bytes, max_procs, num_groups,
                   groups, next_idx, uncaught>>
    /\ UNCHANGED <<splitVars, execVars, runVars, tableVars, monVars>>

\* if not args.remote_path.startswith("rsync://"): sys.exit(1)
CheckRemotePath ==
    /\ main_pc = "check_remote"
    /\ IF ~startswith(args.remote_path, RsyncScheme) THEN exit_with(1)
       ELSE main_pc' = "walk" /\ UNCHANGED exit_status
    /\ UNCHANGED <<args, isdir, file_info, total_bytes, max_procs, num_groups,
                   groups, next_idx, uncaught>>
    /\ UNCHANGED <<splitVars, execVars, runVars, tableVars, monVars>>

\* the os.walk loop fills file_info and total_bytes
Walk ==
    /\ main_pc = "walk"
    /\ \E found \in WalkResults :
         /\ file_info' = found
         /\ total_bytes' = sum_sizes(found)
    /\ main_pc' = "check_files"
    /\ UNCHANGED <<args, isdir, max_procs, num_groups, groups, next_idx,
                   exit_status, uncaught>>
    /\ UNCHANGED <<splitVars, execVars, runVars, tableVars, monVars>>

\* no_files but for the test: the driver goes on without files (faulty variant)
no_files_unchecked(found) == FALSE

\* if not file_info: sys.exit(1)
no_files(found) == found = <<>>

CheckFiles ==
    /\ main_pc = "check_files"
    /\ IF no_files(file_info) THEN exit_with(1)
       ELSE main_pc' = "split" /\ UNCHANGED exit_status
    /\ UNCHANGED <<args, isdir, file_info, total_bytes, max_procs, num_groups,
                   groups, next_idx, uncaught>>
    /\ UNCHANGED <<splitVars, execVars, runVars, tableVars, monVars>>

\* max_procs, num_groups, groups and tasks are computed; progress_data and
\* data_lock are created. os.cpu_count() - 1 raises TypeError on None, and
\* split_files_by_capacity may raise ValueError.
Split ==
    /\ main_pc = "split"
    /\ \E cpu \in CpuCounts :
         IF args.max_procs = NoValue /\ cpu = NoValue
         THEN /\ raise_uncaught(TypeError)
              /\ UNCHANGED <<max_procs, num_groups, groups>>
         ELSE LET mp == IF args.max_procs # NoValue THEN args.max_procs[1]
                        ELSE cpu[1] - 1
                  ng == min2(Len(file_info), mp)
                  out == split_files_by_capacity(file_info, ng)
              IN /\ max_procs' = mp
                 /\ num_groups' = ng
                 /\ IF out.raised # None
                    THEN raise_uncaught(out.raised) /\ UNCHANGED groups
                    ELSE /\ groups' = out.groups
                         /\ main_pc' = "start_monitor"
                         /\ UNCHANGED <<exit_status, uncaught>>
    /\ UNCHANGED <<args, isdir, file_info, total_bytes, next_idx>>
    /\ UNCHANGED <<splitVars, execVars, runVars, tableVars, monVars>>

\* if args.progress the monitor thread is started; then the executor is
\* constructed: self.results = [None] * len(tasks)
StartMonitor ==
    /\ main_pc = "start_monitor"
    /\ mon_pc' = IF args.progress THEN "check" ELSE mon_pc
    /\ progress_callback' = IF args.progress THEN "update_progress" ELSE None
    /\ run_callback' = "lambda"
    /\ LET ts == 0..(Len(groups) - 1)
       IN /\ results' = [i \in ts |-> NoValue]
          /\ pc' = [i \in ts |-> "unstarted"]
          /\ emitted' = [i \in ts |-> <<>>]
          /\ at_eof' = [i \in ts |-> FALSE]
          /\ cb_val' = [i \in ts |-> 0]
          /\ ret' = [i \in ts |-> NoValue]
          /\ run_count' = [i \in ts |-> 0]
          /\ result_writes' = [i \in ts |-> 0]
          /\ reported' = [i \in ts |-> {}]
          /\ stderr_fill' = [i \in ts |-> 0]
          /\ proc_blocked' = [i \in ts |-> FALSE]
    /\ next_idx' = 0
    /\ main_pc' = "start_threads"
    /\ UNCHANGED <<args, isdir, file_info, total_bytes, max_procs, num_groups,
                   groups, exit_status, uncaught>>
    /\ UNCHANGED <<progress_values, progress_data, data_lock>>
    /\ UNCHANGED <<prog_stop_event, transferred, prev_transferred, cycles,
                   shown_pct, newlines>>
    /\ UNCHANGED splitVars

\* ------------------------------------ RsyncParallelExecutor.run_all
\* for idx, task in enumerate(self.tasks): Thread(...).start()
StartThread ==
    /\ main_pc = "start_threads"
    /\ IF next_idx \in Tasks
       THEN /\ pc' = [pc EXCEPT ![next_idx] = "start"]
            /\ next_idx' = next_idx + 1
            /\ UNCHANGED main_pc
       ELSE /\ next_idx' = 0
            /\ main_pc' = "join_threads"
            /\ UNCHANGED pc
    /\ UNCHANGED <<args, isdir, file_info, total_bytes, max_procs, num_groups,
                   groups, exit_status, uncaught>>
    /\ UNCHANGED <<progress_callback, results, emitted, at_eof, cb_val, ret,
                   run_count, result_writes>>
    /\ UNCHANGED <<splitVars, runVars, tableVars, monVars>>

\* StoreResult but for self.results filled in the order the workers end
\* (faulty variant)
StoreResultInCompletionOrder(i) ==
    /\ pc[i] = "returned"
    /\ run_callback = "lambda"
    /\ LET k == Cardinality({j \in DOMAIN results : results[j] # NoValue})
       IN results' = [results EXCEPT ![k] = ret[i]]
    /\ result_writes' = [result_writes EXCEPT ![i] = @ + 1]
    /\ pc' = [pc EXCEPT ![i] = "finished"]
    /\ UNCHANGED <<progress_callback, emitted, at_eof, cb_val, ret, run_count>>
    /\ UNCHANGED <<splitVars, mainVars, runVars, tableVars, monVars>>

\* StoreResult but for a second run of a task that failed (faulty variant)
StoreResultRetry(i) ==
    /\ pc[i] = "returned"
    /\ run_callback = "lambda"
    /\ IF ret[i] # Some(0) /\ run_count[i] < 2
       THEN /\ pc' = [pc EXCEPT ![i] = "start"]
            /\ UNCHANGED <<results, result_writes>>
       ELSE /\ results' = [results EXCEPT ![i] = ret[i]]
            /\ result_writes' = [result_writes EXCEPT ![i] = @ + 1]
            /\ pc' = [pc EXCEPT ![i] = "finished"]
    /\ UNCHANGED <<progress_callback, emitted, at_eof, cb_val, ret, run_count>>
    /\ UNCHANGED <<splitVars, mainVars, runVars, tableVars, monVars>>

\* worker: self.results[idx] = ret, and the thread ends
StoreResult(i) ==
    /\ pc[i] = "returned"
    /\ run_callback = "lambda"
    /\ results' = [results EXCEPT ![i] = ret[i]]
    /\ result_writes' = [result_writes EXCEPT ![i] = @ + 1]
    /\ pc' = [pc EXCEPT ![i] = "finished"]
    /\ UNCHANGED <<progress_callback, emitted, at_eof, cb_val, ret, run_count>>
    /\ UNCHANGED <<splitVars, mainVars, runVars, tableVars, monVars>>

\* joinable but for the wait: join returns for any started thread (faulty variant)
joinable_once_started(i) == pc[i] # "unstarted"

\* t.join() returns once thread t has ended
joinable(i) == pc[i] = "finished"

\* JoinThread but for a return at the first failure seen (faulty variant)
JoinThreadFailFast ==
    /\ main_pc = "join_threads"
    /\ IF \E j \in DOMAIN results : results[j] # NoValue /\ results[j] # Some(0)
       THEN /\ main_pc' = "run_all_returned"
            /\ UNCHANGED next_idx
       ELSE IF next_idx \in Tasks
       THEN /\ pc[next_idx] = "finished"
            /\ next_idx' = next_idx + 1
            /\ UNCHANGED main_pc
       ELSE /\ main_pc' = "run_all_returned"
            /\ UNCHANGED next_idx
    /\ UNCHANGED <<args, isdir, file_info, total_bytes, max_procs, num_groups,
                   groups, exit_status, uncaught>>
    /\ UNCHANGED <<splitVars, execVars, runVars, tableVars, monVars>>

\* for t in threads: t.join(); return self.results
JoinThread ==
    /\ main_pc = "join_threads"
    /\ IF next_idx \in Tasks
       THEN /\ joinable(next_idx)
            /\ next_idx' = next_idx + 1
            /\ UNCHANGED main_pc
       ELSE /\ main_pc' = "run_all_returned"
            /\ UNCHANGED next_idx
    /\ UNCHANGED <<args, isdir, file_info, total_bytes, max_procs, num_groups,
                   groups, exit_status, uncaught>>
    /\ UNCHANGED <<splitVars, execVars, runVars, tableVars, monVars>>

\* if args.progress: prog_stop_event.set()
StopMonitor ==
    /\ main_pc = "run_all_returned"
    /\ IF args.progress
       THEN prog_stop_event' = TRUE /\ main_pc' = "join_monitor"
       ELSE UNCHANGED prog_stop_event /\ main_pc' = "report"
    /\ UNCHANGED <<args, isdir, file_info, total_bytes, max_procs, num_groups,
                   groups, next_idx, exit_status, uncaught>>
    /\ UNCHANGED <<mon_pc, transferred, prev_transferred, cycles, shown_pct,
                   newlines>>
    /\ UNCHANGED <<splitVars, execVars, runVars, tableVars>>

\* JoinMonitor but for the wait: the driver goes on while the monitor runs
\* (faulty variant)
JoinMonitorNoWait ==
    /\ main_pc = "join_monitor"
    /\ main_pc' = "report"
    /\ UNCHANGED <<args, isdir, file_info, total_bytes, max_procs, num_groups,
                   groups, next_idx, exit_status, uncaught>>
    /\ UNCHANGED <<splitVars, execVars, runVars, tableVars, monVars>>

\* prog_thread.join()
JoinMonitor ==
    /\ main_pc = "join_monitor"
    /\ mon_pc = "finished"
    /\ main_pc' = "report"
    /\ UNCHANGED <<args, isdir, file_info, total_bytes, max_procs, num_groups,
                   groups, next_idx, exit_status, uncaught>>
    /\ UNCHANGED <<splitVars, execVars, runVars, tableVars, monVars>>

\* all tasks succeeded: the summary is printed and main returns; otherwise
\* sys.exit(1)
Report ==
    /\ main_pc = "report"
    /\ exit_with(IF all_zero(results) THEN 0 ELSE 1)
    /\ UNCHANGED <<args, isdir, file_info, total_bytes, max_procs, num_groups,
                   groups, next_idx, uncaught>>
    /\ UNCHANGED <<splitVars, execVars, runVars, tableVars, monVars>>

\* the lines a process emits in the driver
DriverLines == {<<"2">>, <<"1">>}

\* ----------------------------------------- Spec: the driver, any command
\* line, any file tree, any output and exit code of every process
Init ==
    /\ SplitIdle /\ ExecIdle /\ RunIdle /\ TableIdle /\ MonIdle
    /\ args \in [remote_path : RemotePaths,
                 max_procs : {NoValue} \cup {Some(n) : n \in (-1)..MaxProcs},
                 progress : BOOLEAN]
    /\ isdir \in BOOLEAN
    /\ main_pc = "check_dir"
    /\ file_info = <<>>
    /\ total_bytes = 0
    /\ max_procs = 0
    /\ num_groups = 0
    /\ groups = <<>>
    /\ next_idx = 0
    /\ exit_status = NoValue
    /\ uncaught = None

WorkerStep ==
    \/ \E i \in Tasks : Popen(i)
    \/ \E i \in Tasks : ReadLine(i, DriverLines, MaxLines)
    \/ \E i \in Tasks : ReadEof(i)
    \/ \E i \in Tasks : LambdaNone(i)
    \/ \E i \in Tasks : UpdateAcquire(i)
    \/ \E i \in Tasks : UpdateWrite(i)
    \/ \E i \in Tasks : Wait(i)
    \/ \E i \in Tasks : StoreResult(i)

MonitorStep ==
    \/ MonCheck
    \/ MonAcquire
    \/ MonSnapshot
    \/ MonRender
    \/ MonNewline

MainStep ==
    \/ CheckLocalDir
    \/ CheckRemotePath
    \/ Walk
    \/ CheckFiles
    \/ Split
    \/ StartMonitor
    \/ StartThread
    \/ JoinThread
    \/ StopMonitor
    \/ JoinMonitor
    \/ Report

Next ==
    \/ MainStep
    \/ MonitorStep
    \/ WorkerStep

Spec == Init /\ [][Next]_vars

\* ------------------------------------------------------------------ claims
\* the number of positions of seq holding x
Occurrences(seq, x) == Cardinality({k \in DOMAIN seq : seq[k] = x})

RECURSIVE SumOver(_, _)
SumOver(f, S) ==
    IF S = {} THEN 0
    ELSE LET x == CHOOSE y \in S : TRUE IN f[x] + SumOver(f, S \ {x})

\* the number of times path x is placed, counted over all groups
Placed(gs, x) == SumOver([k \in DOMAIN gs |-> Occurrences(gs[k], x)], DOMAIN gs)

SplitReturned == split_out.raised # Pending

\* C1: for groups_count >= 1, split_files_by_capacity returns exactly
\* groups_count groups, and every path is placed in the groups exactly as
\* often as it occurs in the input: nothing lost, nothing duplicated.
C1_Partition ==
    (SplitReturned /\ groups_count >= 1) =>
        /\ split_out.raised = None
        /\ Len(split_out.groups) = groups_count
        /\ \A p \in Paths :
               Placed(split_out.groups, p) =
                   Occurrences([k \in DOMAIN file_info_list |-> file_info_list[k][1]], p)

\* a call with a path given twice and more entries than groups has returned
C1_Witness ==
    /\ SplitReturned
    /\ groups_count = 2
    /\ Len(file_info_list) = 3
    /\ file_info_list[1][1] = file_info_list[3][1]
    /\ file_info_list[1][2] < file_info_list[2][2]

\* the executor has been constructed
ExecutorBuilt == run_callback = "lambda"

\* run_all has returned: the caller holds results
RunAllReturned ==
    /\ ExecutorBuilt
    /\ main_pc \in {"run_all_returned", "join_monitor", "report", "exited"}

TaskIndices == 0..(Len(groups) - 1)

\* C2: the sequence run_all returns has one element per task, and its i-th
\* element is the exit code the i-th task's run returned, whatever the order
\* in which the worker threads ran and ended.
C2_ResultsInTaskOrder ==
    RunAllReturned =>
        /\ DOMAIN results = TaskIndices
        /\ \A i \in TaskIndices : ret[i] # NoValue /\ results[i] = ret[i]

\* run_all has returned for two tasks whose runs returned 0 and 1
C2_Witness ==
    /\ main_pc = "run_all_returned"
    /\ Len(groups) = 2
    /\ ret[0] = Some(0) /\ ret[1] = Some(1)
    /\ results[0] = Some(0) /\ results[1] = Some(1)

\* the largest element of a non-empty set of numbers
MaxOf(S) == CHOOSE m \in S : \A x \in S : x <= m

\* the table holds, for each task that has reported, the largest value
\* written for it, and no key for a task that has not
TableHoldsMaxima ==
    /\ DOMAIN progress_data = {i \in DOMAIN reported : reported[i] # {}}
    /\ \A i \in DOMAIN progress_data : progress_data[i] = MaxOf(reported[i])

\* no step removes a key of the table or lowers its value
TableStepMonotonic ==
    \A k \in DOMAIN progress_data :
        k \in DOMAIN progress_data' /\ progress_data'[k] >= progress_data[k]

\* C3: after any progress updates in any interleaving, the value stored for a
\* task is the maximum ever reported for it, and no step lowers a stored
\* value: a later, smaller report leaves it as it is.
C3_TableMonotonicMax == []TableHoldsMaxima /\ [][TableStepMonotonic]_vars

\* task 0 reported 2 and then 1, both written, and the table still holds 2
C3_Witness ==
    /\ 0 \in DOMAIN progress_data
    /\ emitted[0] = <<(<<"2">>), (<<"1">>)>>
    /\ reported[0] = {1, 2}
    /\ pc[0] = "readline"
    /\ progress_data[0] = 2

\* the units that are inside an access of the progress table
WorkersInTable == {i \in Tasks : pc[i] = "locked"}
UnitsInTable == Cardinality(WorkersInTable) + (IF mon_pc = "locked" THEN 1 ELSE 0)

\* C4: every read and every write of the progress table happens with the one
\* lock held, so never are two units (two workers, or a worker and the
\* monitor) inside an access of the table at the same time.
C4_TableAccessExclusive ==
    /\ UnitsInTable <= 1
    /\ UnitsInTable = 1 => data_lock = TRUE

\* the monitor reads the table while a worker waits to write to it
C4_Witness ==
    /\ mon_pc = "locked"
    /\ \E i \in Tasks : pc[i] = "callback"

\* every slot is written at most once; once run_all has returned every unit
\* has ended and every slot was written once with its task's exit code
ResultsCompleteOnReturn ==
    /\ \A i \in DOMAIN result_writes : result_writes[i] <= 1
    /\ RunAllReturned =>
           \A i \in TaskIndices :
               /\ pc[i] = "finished"
               /\ result_writes[i] = 1
               /\ results[i] # NoValue /\ results[i] = ret[i]

\* a slot changes only in a step of its own task's worker, which then ends
SlotWrittenByOwnUnit ==
    \A i \in DOMAIN results :
        (i \in DOMAIN results' /\ results'[i] # results[i]) =>
            pc[i] = "returned" /\ pc'[i] = "finished"

Exited == main_pc = "exited"

SourceMissing == ~isdir
BadDestination == ~startswith(args.remote_path, RsyncScheme)
SomeTaskFailed == \E i \in DOMAIN results : results[i] # NoValue /\ results[i] # Some(0)
AllTasksSucceeded ==
    RunAllReturned /\ \A i \in DOMAIN results : results[i] = Some(0)

\* C6: the driver exits with status 0 if every task's exit code was 0, and
\* with status 1 if the source directory is missing, the destination does not
\* start with "rsync://", no files are found, or a task's exit code is not 0.
C6_ExitStatus ==
    Exited =>
        /\ AllTasksSucceeded => exit_status = Some(0)
        /\ (SourceMissing \/ BadDestination \/ file_info = <<>> \/ SomeTaskFailed)
               => exit_status = Some(1)

\* the driver has exited with status 0 after two tasks that both returned 0
C6_Witness ==
    /\ Exited
    /\ exit_status = Some(0)
    /\ Len(groups) = 2
    /\ \A i \in TaskIndices : results[i] = Some(0)

\* the start loop of run_all is over
StartLoopDone ==
    /\ ExecutorBuilt
    /\ main_pc \in {"join_threads", "run_all_returned", "join_monitor",
                    "report", "exited"}

\* task j was run to its end: started, its output read to the end, its exit
\* awaited and its result stored
RanToCompletion(j) ==
    /\ pc[j] = "finished"
    /\ run_count[j] = 1
    /\ at_eof[j]
    /\ results[j] = ret[j] /\ ret[j] # NoValue

\* C7: a task whose process exits non-zero cancels and prevents no sibling:
\* every task is started whatever results are already in, and the failure is
\* surfaced (run_all returns, the driver exits 1) only when every task has
\* run to completion.
C7_NoFailFast ==
    /\ StartLoopDone => \A j \in Tasks : pc[j] # "unstarted"
    /\ (RunAllReturned /\ SomeTaskFailed) => \A j \in Tasks : RanToCompletion(j)
    /\ (Exited /\ SomeTaskFailed) => exit_status = Some(1)

\* the driver has exited 1 after task 0 failed and its sibling ran to its end
\* with all of its output read
C7_Witness ==
    /\ Exited
    /\ exit_status = Some(1)
    /\ Len(groups) = 2
    /\ results[0] = Some(23)
    /\ results[1] = Some(0)
    /\ Len(emitted[1]) = MaxLines
    /\ RanToCompletion(1)

\* C8: in every execution of run_all each task's run is entered exactly once:
\* never twice whatever its exit code, and once by the time run_all returns.
C8_RunExactlyOnce ==
    /\ \A i \in Tasks : run_count[i] <= 1
    /\ RunAllReturned => \A i \in TaskIndices : run_count[i] = 1

\* run_all has returned with a failed task, and every task was run once
C8_Witness ==
    /\ main_pc = "run_all_returned"
    /\ Len(groups) = 2
    /\ results[1] = Some(1)
    /\ \A i \in TaskIndices : run_count[i] = 1

ConfigurationError == SourceMissing \/ BadDestination \/ file_info = <<>>

\* C9: on a configuration error (source directory missing, destination
\* without "rsync://", or no files) the driver exits with status 1, and no
\* task, no process and no monitor thread is ever started.
C9_ConfigErrorBeforeStart ==
    ConfigurationError =>
        /\ Exited => exit_status = Some(1) /\ uncaught = None
        /\ Tasks = {}
        /\ mon_pc = "unstarted"
        /\ ~ExecutorBuilt

\* the driver has exited on an empty file tree, with --progress given
C9_Witness ==
    /\ Exited
    /\ isdir /\ ~BadDestination
    /\ args.progress
    /\ file_info = <<>>
    /\ exit_status = Some(1)

\* the leading numeric token of a line, stated on its own: after k
\* whitespace characters come n >= 1 characters that are digits or commas,
\* and then the end of the line or another character
IsToken(text, k, n) ==
    /\ k + n <= Len(text)
    /\ \A j \in 1..k : text[j] \in Whitespace
    /\ \A j \in (k + 1)..(k + n) : text[j] \in Digits \cup {","}
    /\ k + n < Len(text) => text[k + n + 1] \notin Digits \cup {","}

DigitOrder == <<"0", "1", "2", "3", "4", "5", "6", "7", "8", "9">>
DigitNumber(c) == (CHOOSE j \in 1..Len(DigitOrder) : DigitOrder[j] = c) - 1

RECURSIVE PowerOfTen(_)
PowerOfTen(e) == IF e = 0 THEN 1 ELSE 10 * PowerOfTen(e - 1)

\* the number the decimal digits ds write
DecimalValue(ds) ==
    SumOver([j \in DOMAIN ds |-> DigitNumber(ds[j]) * PowerOfTen(Len(ds) - j)],
            DOMAIN ds)

IsDigit(c) == c \in Digits

\* the digits of the line's leading token, <<>> when it has no token or the
\* token has no digit
TokenDigits(text) ==
    IF \E k \in 0..Len(text), n \in 1..Len(text) : IsToken(text, k, n)
    THEN LET kn == CHOOSE kn \in (0..Len(text)) \X (1..Len(text)) :
                       IsToken(text, kn[1], kn[2])
         IN SelectSeq(SubSeq(text, kn[1] + 1, kn[1] + kn[2]), IsDigit)
    ELSE <<>>

\* the values of the lines that parse, in the order of the lines
RECURSIVE ParsedValues(_)
ParsedValues(texts) ==
    IF texts = <<>> THEN <<>>
    ELSE LET ds == TokenDigits(Head(texts))
         IN (IF ds = <<>> THEN <<>> ELSE <<DecimalValue(ds)>>)
                \o ParsedValues(Tail(texts))

\* the values run has handed to the callback: those the callback has
\* recorded, and the one it is being called with
HandedToCallback(i) ==
    progress_values \o (IF pc[i] = "callback" THEN <<cb_val[i]>> ELSE <<>>)

\* C10: run calls the progress callback once for each output line that has a
\* leading numeric token (digits and thousands separators after optional
\* whitespace, the separators dropped), with the number parsed and in the
\* order of the lines; a line that does not parse causes no call and no
\* error, and the lines after it are still processed.
C10_CallbackPerParsedLine ==
    \A i \in Tasks :
        /\ run_callback = "dummy_progress" =>
               HandedToCallback(i) = ParsedValues(emitted[i])
        /\ run_callback = None => progress_values = <<>>
        /\ pc[i] \in {"wait", "returned"} => at_eof[i]

\* run has returned after a line without a number and then the line
\* "  1,234,567   10% ...", for which the callback got 1234567
C10_Witness ==
    /\ pc[0] = "returned"
    /\ Len(emitted[0]) = 2
    /\ emitted[0][1] = <<"x">>
    /\ Len(emitted[0][2]) > 11
    /\ progress_values = <<1234567>>

\* ---------------------------------------------------------------------
\* run has a next step to take: the process starts, a read returns a line or
\* the end of the stream, the callback runs, or the wait returns
RunCanStep(i) ==
    ENABLED (\/ Popen(i)
             \/ ReadLine(i, RunLines, MaxRunLines)
             \/ ReadEof(i)
             \/ DummyProgress(i)
             \/ Wait(i))

\* C11: RsyncTask.run never deadlocks reading the output of a process that
\* emits finitely much on its output streams and then exits: until run has
\* returned the exit code, its next step can always be taken (a read always
\* returns, with a line or with the end of the stream)
C11_RunNeverDeadlocks ==
    \A i \in Tasks : pc[i] # "returned" => RunCanStep(i)
\* ---------------------------------------------------------------------
\* the monitor has left its loop
MonLeftLoop == mon_pc \in {"newline", "finished"}

\* C12: once the stop signal is set progress_monitor eventually terminates;
\* the loop test that follows the signal leaves the loop, so that at
\* most the cycle in progress is finished; after the loop is left no status
\* line is written; exactly one newline is written, at the end; and the loop
\* is never left before the stop signal is set
C12_MonitorStopsOnSignal ==
    /\ prog_stop_event ~> (mon_pc = "finished")
    /\ [][prog_stop_event /\ mon_pc = "check" => mon_pc' # "acquire"]_vars
    /\ [][MonLeftLoop => cycles' = cycles /\ shown_pct' = shown_pct]_vars
    /\ [](newlines = IF mon_pc = "finished" THEN 1 ELSE 0)
    /\ [](MonLeftLoop => prog_stop_event)

\* the monitor wrote a status line, was stopped and has ended
C12_Witness ==
    /\ prog_stop_event
    /\ mon_pc = "finished"
    /\ cycles >= 1
    /\ newlines = 1
\* ---------------------------------------------------------------------
\* the size the input gives for a path (paths are distinct in SpecLpt)
SizeOfPath(p) ==
    file_info_list[CHOOSE k \in DOMAIN file_info_list : file_info_list[k][1] = p][2]

\* the total of a group: the sizes of its paths added up
GroupTotal(g) == SumOver([k \in DOMAIN g |-> SizeOfPath(g[k])], DOMAIN g)

GroupTotals(gs) == {GroupTotal(gs[k]) : k \in DOMAIN gs}
LargestOf(S) == CHOOSE m \in S : \A x \in S : m >= x
SmallestOf(S) == CHOOSE m \in S : \A x \in S : m <= x

\* the largest group total of the groups returned
Makespan == LargestOf(GroupTotals(split_out.groups))

\* the largest group total when entry k goes to group f[k]
MakespanOf(f) ==
    LargestOf({SumOver([k \in DOMAIN file_info_list |->
                           IF f[k] = g THEN file_info_list[k][2] ELSE 0],
                       DOMAIN file_info_list) : g \in 1..groups_count})

\* the smallest largest-group total over all assignments
OptMakespan ==
    SmallestOf({MakespanOf(f) :
                   f \in [DOMAIN file_info_list -> 1..groups_count]})

\* C13: for groups_count >= 1 the largest group total of the groups returned
\* is at most 4/3 of the smallest largest-group total that any assignment of
\* the same entries to groups_count groups achieves
C13_MakespanWithinFourThirds ==
    (SplitReturned /\ groups_count >= 1) =>
        /\ split_out.raised = None
        /\ 3 * Makespan <= 4 * OptMakespan

\* a call has returned groups that are not optimal
C13_Witness ==
    /\ SplitReturned
    /\ split_out.raised = None
    /\ Makespan > OptMakespan

\* the size of the largest single entry, 0 without entries
LargestEntry ==
    LargestOf({file_info_list[k][2] : k \in DOMAIN file_info_list} \cup {0})

InputSizes == [k \in DOMAIN file_info_list |-> file_info_list[k][2]]

\* C14: the largest and the smallest group total of the groups returned
\* differ by at most the size of the largest single entry; sizes 500, 300,
\* 200, 100 split into 2 groups give totals that differ by at most 200
C14_Balanced ==
    (SplitReturned /\ groups_count >= 1) =>
        /\ split_out.raised = None
        /\ Makespan - SmallestOf(GroupTotals(split_out.groups)) <= LargestEntry
        /\ (InputSizes = TestSizes /\ groups_count = 2) =>
               Makespan - SmallestOf(GroupTotals(split_out.groups)) <= 200

\* the call of the test has returned, with totals that differ
C14_Witness ==
    /\ SplitReturned
    /\ InputSizes = TestSizes
    /\ groups_count = 2
    /\ Makespan > SmallestOf(GroupTotals(split_out.groups))

\* the place of entry k in non-increasing size order, entries of equal size
\* in input order
RankOf(k) ==
    1 + Cardinality({j \in DOMAIN file_info_list :
                        \/ file_info_list[j][2] > file_info_list[k][2]
                        \/ /\ file_info_list[j][2] = file_info_list[k][2]
                           /\ j < k})

EntryAtRank(r) == file_info_list[CHOOSE k \in DOMAIN file_info_list : RankOf(k) = r]

\* the lowest-indexed group of gs whose total is smallest
LeastLoaded(gs) ==
    CHOOSE g \in DOMAIN gs :
        \A h \in DOMAIN gs :
            \/ GroupTotal(gs[g]) < GroupTotal(gs[h])
            \/ GroupTotal(gs[g]) = GroupTotal(gs[h]) /\ g <= h

\* the reference LPT: the groups after the first r entries in size order
\* are placed, each in the least loaded group
RECURSIVE RefLpt(_)
RefLpt(r) ==
    IF r = 0 THEN [g \in 1..groups_count |-> <<>>]
    ELSE LET before == RefLpt(r - 1)
         IN [before EXCEPT ![LeastLoaded(before)] = Append(@, EntryAtRank(r)[1])]

\* C15: the groups returned are those of the reference LPT greedy: entries
\* taken in non-increasing size order, each placed in the group with the
\* smallest running total, the lowest-indexed one on a tie; the result is a
\* function of the input sequence and the group count
C15_IsLptGreedy ==
    (SplitReturned /\ groups_count >= 1) =>
        /\ split_out.raised = None
        /\ split_out.groups = RefLpt(Len(file_info_list))

\* a call has returned where both tie rules mattered: entries of equal size
\* apart in the input, and a group that got a second entry
C15_Witness ==
    /\ SplitReturned
    /\ groups_count = 3
    /\ Len(file_info_list) = 5
    /\ file_info_list[1][2] < file_info_list[2][2]
    /\ file_info_list[2][2] = file_info_list[4][2]
    /\ Len(split_out.groups[1]) >= 2
\* ---------------------------------------------------------------------
\* for each line a process of the driver may emit, the values it parses to
ValuesOfLine == [t \in DriverLines |-> ParsedValues(<<t>>)]

\* the set of the values that the lines task i has emitted parse to
OwnValues(i) ==
    UNION {{ValuesOfLine[emitted[i][k]][j] :
               j \in DOMAIN ValuesOfLine[emitted[i][k]]} : k \in DOMAIN emitted[i]}

\* the keys of the table that a step adds or changes
KeysChanged ==
    {k \in DOMAIN progress_data' :
        k \notin DOMAIN progress_data \/ progress_data'[k] # progress_data[k]}

\* the read loop of task i has ended
ReadingDone(i) == pc[i] \in {"wait", "returned", "finished"}

\* what is stored under a key came from that task's own output, and a task
\* whose output had progress values has an entry under its own key
UpdatesUnderOwnIndex ==
    \A i \in DOMAIN reported :
        LET own == OwnValues(i)
        IN /\ reported[i] \subseteq own
           /\ i \in DOMAIN progress_data => progress_data[i] \in own
           /\ (progress_callback = "update_progress" /\ ReadingDone(i)) =>
                  /\ reported[i] = own
                  /\ own # {} => i \in DOMAIN progress_data

\* a step changes the table only in the key of the one worker that is in
\* update_progress, and leaves every other key as it is
UpdateChangesOwnKeyOnly ==
    /\ \A k \in KeysChanged : pc[k] = "locked" /\ pc'[k] = "readline"
    /\ Cardinality(KeysChanged) <= 1
    /\ DOMAIN progress_data \subseteq DOMAIN progress_data'

\* C16: a progress value of the task at index i reaches the shared callback
\* tagged with i and no other index, in every interleaving of the workers:
\* an update from task i changes the table's entry for key i only, and with
\* a callback supplied every task that reports progress has an update under
\* its own index
C16_ProgressTaggedWithOwnIndex ==
    []UpdatesUnderOwnIndex /\ [][UpdateChangesOwnKeyOnly]_vars

\* two tasks have reported different values, each stored under its own key
C16_Witness ==
    /\ DOMAIN progress_data = {0, 1}
    /\ progress_data[0] = 1
    /\ progress_data[1] = 2
    /\ ReadingDone(0)
    /\ ReadingDone(1)
\* ---------------------------------------------------------------------
\* the driver has its groups: split_files_by_capacity has returned them
DriverHasGroups ==
    main_pc \in {"start_monitor", "start_threads", "join_threads",
                 "run_all_returned", "join_monitor", "report"}

\* C17: with the group count clamped to min(number of files, max_procs), as
\* the driver clamps it, split_files_by_capacity returns no empty group:
\* every group has at least one file, and no task is created without files
C17_NoEmptyGroup ==
    (DriverHasGroups /\ num_groups <= Len(file_info)) =>
        \A k \in DOMAIN groups : groups[k] # <<>>
\* ---------------------------------------------------------------------
\* the driver is about to print its outcome, or has printed it and exited
AtOutcome == ExecutorBuilt /\ main_pc \in {"report", "exited"}

\* C18: with progress requested the monitor is started before the executor
\* runs and is running while the tasks run; the stop signal is set only
\* after run_all has returned, with every task ended; and whether all tasks
\* succeeded or some failed, the monitor has been stopped and has ended
\* before the driver prints its outcome and exits
C18_MonitorStoppedAfterRunAll ==
    /\ (args.progress /\ ExecutorBuilt) => mon_pc # "unstarted"
    /\ (\E i \in Tasks : pc[i] # "finished") => ~MonLeftLoop
    /\ prog_stop_event =>
           /\ RunAllReturned
           /\ \A i \in Tasks : pc[i] = "finished"
    /\ (args.progress /\ AtOutcome) => prog_stop_event /\ mon_pc = "finished"
    /\ ~args.progress => ~prog_stop_event /\ mon_pc = "unstarted"

\* with progress requested a task failed and the driver exited with status
\* 1, the monitor having shown progress and ended
C18_Witness ==
    /\ args.progress
    /\ Exited
    /\ exit_status = Some(1)
    /\ SomeTaskFailed
    /\ cycles >= 1
    /\ transferred >= 1
    /\ mon_pc = "finished"
\* ---------------------------------------------------------------------
\* a status line has been written and shows the latest snapshot
StatusLineShown == cycles >= 1 /\ mon_pc # "render"

AbsDiff(a, b) == IF a >= b THEN a - b ELSE b - a

\* C19: the percentage a status line shows is the sum of the table's values
\* at the snapshot over total_bytes times 100, to the nearest tenth, and 0
\* when total_bytes is 0; a table that sums to half of the total shows
\* 50.0%, one that sums to the total 100.0%
C19_PercentOfTotal ==
    StatusLineShown =>
        /\ transferred = SumOver(progress_data, DOMAIN progress_data)
        /\ total_bytes = 0 => shown_pct = 0
        /\ total_bytes > 0 =>
               /\ 2 * AbsDiff(shown_pct * total_bytes, 1000 * transferred)
                      <= total_bytes
               /\ 2 * transferred = total_bytes => shown_pct = 500
               /\ transferred = total_bytes => shown_pct = 1000

\* the test's table {0: 500, 1: 500} with total 1000 has been shown as 100.0%
C19_Witness ==
    /\ StatusLineShown
    /\ progress_data = TestTable
    /\ total_bytes = TestTotal
    /\ shown_pct = 1000
\* ---------------------------------------------------------------------
\* delta_bytes = transferred - prev_transferred, as the cycle in progress
\* computes it from its snapshot
delta_bytes == transferred - prev_transferred

\* C20: from one cycle of the monitor to the next the snapshot total never
\* decreases, however the cycles interleave with the tasks' updates, so the
\* byte delta that the throughput is computed from is never negative
C20_SnapshotNeverDecreases ==
    /\ [][transferred' >= transferred]_vars
    /\ [](delta_bytes >= 0)

\* the second cycle has taken a snapshot larger than the first, which was
\* not zero
C20_Witness ==
    /\ mon_pc = "render"
    /\ cycles = 1
    /\ prev_transferred >= 1
    /\ delta_bytes >= 1

\* ---------------------------------------------------------------------
\* files were found and the driver has gone past its partitioning step
PartitioningDone ==
    file_info # <<>> /\ main_pc \notin {"check_files", "split"}

\* C21: whenever files were found, the driver calls split_files_by_capacity
\* with a group count of at least 1, for every --max-procs value and every
\* core count of the host, so that partitioning does not fail, at least one
\* task is created, and a driver that has exited has run a task
C21_GroupCountAtLeastOne ==
    PartitioningDone =>
        /\ num_groups >= 1
        /\ uncaught = None
        /\ Len(groups) >= 1
        /\ Exited => \E i \in Tasks : run_count[i] >= 1
====
